---- MODULE Spec2Model ----
(***************************************************************************)
(* A model of the line-oriented diff/patch engine of PythonPowerTools:     *)
(* src/python/diff.py (LCS comparison, hunk building, the five output      *)
(* formats) and src/python/patch.py (the parse loop of main and the Patch  *)
(* class).                                                                 *)
(*                                                                         *)
(* A text line is a sequence of one-character strings, without its line    *)
(* terminator; a file or an output stream is a sequence of lines.  Python  *)
(* indices are kept 0-based in the state (item_no, start1, ...) and are    *)
(* shifted by one only where a TLA+ sequence is indexed.                   *)
(***************************************************************************)
EXTENDS Integers, Sequences, FiniteSets, TLC

VARIABLES
    \* ---- diff.py ----
    f1, f2,                   \* the two files read into memory (diff.py:355-375)
    context_lines, diff_type, \* the options (diff.py:326-344)
    quiet,                    \* options.q
    pc,                       \* position of diff.py's main program
    diffs,                    \* diffs = diff(f1, f2) (diff.py:378)
    piece_no,                 \* 1-based index of the next piece of the for loop (diff.py:396)
    old_hunk,                 \* <<>> for None, <<h>> for the pending Hunk (diff.py:395)
    file_length_difference,   \* the global of diff.py:26
    ed_hunks,                 \* the global deque of diff.py:28
    stdout,                   \* the lines printed so far
    calls,                    \* history: one record per hunk output call of the main program
    earlier,                  \* history: the calls of the comparison made before in the same interpreter
    exit_code,                \* -1 while running, else the process exit status
    error,                    \* "" or the name of the uncaught Python exception
    \* ---- patch.py ----
    ppc,                      \* position of patch.py's main program
    options,                  \* Patch.options: the keys the code reads
    patch_source,             \* PushbackFile: the patch lines not yet read
    patch_text,               \* the whole patch stream of this run
    i_fh, o_fh,               \* options['i_fh'] (lines and read position), options['o_fh'] (lines written)
    orig,                     \* the target file before the first run
    garbage,                  \* main's local list (patch.py:291)
    hunk_no,                  \* Patch.hunk
    rejects,                  \* Patch.rejects
    i_lines, o_lines,         \* Patch.i_lines, Patch.o_lines
    stderr,                   \* the notes written by Patch.note
    applied,                  \* history: one record per call of Patch.apply
    run,                      \* number of the patch run (a later run reads the output of the one before)
    p_exit, p_error           \* exit status and uncaught exception of the patch run

dvars == <<f1, f2, context_lines, diff_type, quiet, pc, diffs, piece_no, old_hunk,
           file_length_difference, ed_hunks, stdout, calls, earlier, exit_code, error>>
pvars == <<ppc, options, patch_source, patch_text, i_fh, o_fh, orig, garbage, hunk_no,
           rejects, i_lines, o_lines, stderr, applied, run, p_exit, p_error>>
vars == <<dvars, pvars>>

\* ------------------------------------------------------------------ bounds
MaxLen == 3          \* longest file drawn by Init
MaxContext == 2      \* largest context length drawn by Init
FileLen == 20        \* length of the numbered file of the two-change scenarios
MaxFirst == 5        \* last line the first change of a scenario can be at
MaxStream == 4       \* longest patch stream drawn by PatchInvoke
MaxTarget == 2       \* longest target file drawn by PatchInvoke
MaxFuzz == 1         \* largest fuzz drawn by PatchInvoke
MaxShort == 3        \* longest patch stream drawn by ShortInvoke

\* ------------------------------------------------------------------ program constants
DefaultContext == 3  \* context_lines = 3 of -c and -u
EX_SUCCESS == 0
EX_REJECTS == 1
EX_DIFFERENT == 1
EX_FAILURE == 2

\* ------------------------------------------------------------------ text
Max(x, y) == IF x >= y THEN x ELSE y
Min(x, y) == IF x <= y THEN x ELSE y

Digit(d) == CASE d = 0 -> "0" [] d = 1 -> "1" [] d = 2 -> "2" [] d = 3 -> "3" [] d = 4 -> "4"
              [] d = 5 -> "5" [] d = 6 -> "6" [] d = 7 -> "7" [] d = 8 -> "8" [] d = 9 -> "9"

RECURSIVE NatStr(_)
NatStr(n) == IF n < 10 THEN <<Digit(n)>> ELSE NatStr(n \div 10) \o <<Digit(n % 10)>>

\* str(n) of an int
Str(n) == IF n < 0 THEN <<"-">> \o NatStr(0 - n) ELSE NatStr(n)

RECURSIVE SeqSum(_)
SeqSum(s) == IF s = <<>> THEN 0 ELSE Head(s) + SeqSum(Tail(s))

RECURSIVE Flatten(_)
Flatten(ss) == IF ss = <<>> THEN <<>> ELSE Head(ss) \o Flatten(Tail(ss))

Reverse(s) == [k \in 1..Len(s) |-> s[Len(s) + 1 - k]]

\* str.startswith
StartsWith(line, prefix) ==
    Len(line) >= Len(prefix) /\ SubSeq(line, 1, Len(prefix)) = prefix

\* str.strip() on a line without its terminator: blanks off both ends
RECURSIVE LStrip(_)
LStrip(line) == IF line # <<>> /\ Head(line) \in {" ", "\t"} THEN LStrip(Tail(line)) ELSE line
Strip(line) == Reverse(LStrip(Reverse(LStrip(line))))

\* seq[i] of Python for a 0-based i, negative i counting from the end
InRange(s, i) == (0 - Len(s)) <= i /\ i < Len(s)
PyIndex(s, i) == IF i >= 0 THEN s[i + 1] ELSE s[Len(s) + i + 1]

\* seq[lo:hi] of Python for 0 <= lo
PySlice(s, lo, hi) == SubSeq(s, lo + 1, Min(hi, Len(s)))

\* ------------------------------------------------------------------ diff.py: Block
Change(sign, item_no) == [sign |-> sign, item_no |-> item_no]

removes(block) == SelectSeq(block, LAMBDA c : c.sign = "-")
inserts(block) == SelectSeq(block, LAMBDA c : c.sign = "+")
remove_count(block) == Len(removes(block))
insert_count(block) == Len(inserts(block))
length_diff(block) == insert_count(block) - remove_count(block)

op(block) ==
    IF remove_count(block) > 0 /\ insert_count(block) > 0 THEN "!"
    ELSE IF remove_count(block) > 0 THEN "-"
    ELSE IF insert_count(block) > 0 THEN "+"
    ELSE "^"

\* ------------------------------------------------------------------ diff.py: lcs_matrix, diff
\* RowFill that forgets the neighbour in the row above: matrix[i][j] = matrix[i][j - 1]
\* on unequal lines.
RECURSIVE RowFillLeftOnly(_, _, _, _, _)
RowFillLeftOnly(a, b, i, prev, cur) ==
    LET j == Len(cur) IN
    IF j > Len(b) THEN cur
    ELSE RowFillLeftOnly(a, b, i, prev,
                         Append(cur, IF a[i] = b[j] THEN 1 + prev[j] ELSE cur[j]))

\* One row of the matrix, left to right; cur[j + 1] is matrix[i][j], prev is row i - 1.
RECURSIVE RowFill(_, _, _, _, _)
RowFill(a, b, i, prev, cur) ==
    LET j == Len(cur) IN
    IF j > Len(b) THEN cur
    ELSE RowFill(a, b, i, prev,
                 Append(cur, IF a[i] = b[j] THEN 1 + prev[j]
                             ELSE Max(cur[j], prev[j + 1])))

RECURSIVE MatFill(_, _, _)
MatFill(a, b, rows) ==
    LET i == Len(rows) IN
    IF i > Len(a) THEN rows
    ELSE MatFill(a, b, Append(rows, RowFill(a, b, i, rows[i], <<0>>)))

\* rows[i + 1][j + 1] is matrix[i][j]
lcs_matrix(a, b) == MatFill(a, b, <<[j \in 1..(Len(b) + 1) |-> 0]>>)

\* BacktrackStep without the comparison of the two lines: any pair is kept.
BacktrackStepNoCompare(a, b, matrix, i, j) ==
    IF i > 0 /\ j > 0 THEN "keep"
    ELSE IF j > 0 THEN "+"
    ELSE "-"

\* BacktrackStep with the tie broken the other way: DELETE on equal sub-problem values.
BacktrackStepPreferDelete(a, b, matrix, i, j) ==
    IF i > 0 /\ j > 0 /\ a[i] = b[j] THEN "keep"
    ELSE IF i > 0 /\ (j = 0 \/ matrix[i + 1][j] <= matrix[i][j + 1]) THEN "-"
    ELSE IF j > 0 /\ (i = 0 \/ matrix[i + 1][j] > matrix[i][j + 1]) THEN "+"
    ELSE "stuck"

\* One decision of the backtracking loop at (i, j) with i > 0 or j > 0:
\* "keep", "+", "-" or "stuck" (no branch taken, the loop would not advance).
BacktrackStep(a, b, matrix, i, j) ==
    IF i > 0 /\ j > 0 /\ a[i] = b[j] THEN "keep"
    ELSE IF j > 0 /\ (i = 0 \/ matrix[i + 1][j] >= matrix[i][j + 1]) THEN "+"
    ELSE IF i > 0 /\ (j = 0 \/ matrix[i + 1][j] < matrix[i][j + 1]) THEN "-"
    ELSE "stuck"

\* The while loop of diff: the changes in the order they are appended (back to front).
RECURSIVE Backtrack(_, _, _, _, _, _)
Backtrack(a, b, matrix, i, j, changes) ==
    IF ~(i > 0 \/ j > 0) THEN changes
    ELSE LET step == BacktrackStep(a, b, matrix, i, j) IN
         CASE step = "keep" -> Backtrack(a, b, matrix, i - 1, j - 1, changes)
           [] step = "+" -> Backtrack(a, b, matrix, i, j - 1, Append(changes, Change("+", j - 1)))
           [] step = "-" -> Backtrack(a, b, matrix, i - 1, j, Append(changes, Change("-", i - 1)))
           [] OTHER -> Append(changes, Change("?", -1))

\* changes after changes.reverse()
diff_changes(a, b) == Reverse(Backtrack(a, b, lcs_matrix(a, b), Len(a), Len(b), <<>>))

Abs(x) == IF x < 0 THEN 0 - x ELSE x

\* The continuity test without the comparison of the signs: a change continues the
\* block when its index is the same as or next to the index before it
ContinuousAnySign(prev, curr) == Abs(prev.item_no - curr.item_no) <= 1

\* "Check for continuity"
Continuous(prev, curr) == prev.sign = curr.sign /\ Abs(prev.item_no - curr.item_no) = 1

\* The grouping loop for k in range(1, len(changes)); k is 0-based
RECURSIVE GroupFrom(_, _, _, _)
GroupFrom(changes, k, blocks, current_block) ==
    IF k >= Len(changes)
    THEN IF current_block # <<>> THEN Append(blocks, current_block) ELSE blocks
    ELSE IF Continuous(changes[k], changes[k + 1])
         THEN GroupFrom(changes, k + 1, blocks, Append(current_block, changes[k + 1]))
         ELSE GroupFrom(changes, k + 1, Append(blocks, current_block), <<changes[k + 1]>>)

group_blocks(changes) ==
    GroupFrom(changes, 1, <<>>, IF changes # <<>> THEN <<changes[1]>> ELSE <<>>)

diff(a, b) == group_blocks(diff_changes(a, b))

\* ------------------------------------------------------------------ diff.py: Hunk
\* Hunk.flag_context; len1 = len(f1), len2 = len(f2)
flag_context(h, ctx, len1, len2) ==
    IF ctx = 0 THEN h
    ELSE [h EXCEPT !.start1 = Max(0, h.start1 - ctx),
                   !.start2 = Max(0, h.start2 - ctx),
                   !.end1 = Min(len1 - 1, h.end1 + ctx),
                   !.end2 = Min(len2 - 1, h.end2 + ctx)]

\* Hunk.__init__ with file_length_difference = before_diff on entry; the global
\* becomes before_diff + length_diff(chunk) (HunkDrift).
HunkDrift(chunk, before_diff) == before_diff + length_diff(chunk)

\* Hunk.__init__ that takes the drift before the block where the code takes the drift
\* after it (end1, end2 of a block that only inserts or only removes).
HunkInitDriftBefore(chunk, ctx, before_diff, len1, len2) ==
    LET rem == removes(chunk)
        ins == inserts(chunk)
        start1 == IF rem # <<>> THEN rem[1].item_no ELSE ins[1].item_no - before_diff
        end1 == IF rem # <<>> THEN rem[Len(rem)].item_no ELSE ins[Len(ins)].item_no - before_diff
        start2 == IF ins # <<>> THEN ins[1].item_no ELSE rem[1].item_no + before_diff
        end2 == IF ins # <<>> THEN ins[Len(ins)].item_no ELSE rem[Len(rem)].item_no + before_diff
    IN flag_context([start1 |-> start1, end1 |-> end1, start2 |-> start2, end2 |-> end2,
                     blocks |-> <<chunk>>], ctx, len1, len2)

HunkInit(chunk, ctx, before_diff, len1, len2) ==
    LET after_diff == HunkDrift(chunk, before_diff)
        rem == removes(chunk)
        ins == inserts(chunk)
        start1 == IF rem # <<>> THEN rem[1].item_no ELSE ins[1].item_no - before_diff
        end1 == IF rem # <<>> THEN rem[Len(rem)].item_no ELSE ins[Len(ins)].item_no - after_diff
        start2 == IF ins # <<>> THEN ins[1].item_no ELSE rem[1].item_no + before_diff
        end2 == IF ins # <<>> THEN ins[Len(ins)].item_no ELSE rem[Len(rem)].item_no + after_diff
    IN flag_context([start1 |-> start1, end1 |-> end1, start2 |-> start2, end2 |-> end2,
                     blocks |-> <<chunk>>], ctx, len1, len2)

\* does_overlap measuring from the start of the other hunk instead of its end
does_overlap_starts(h, other_hunk) ==
    (h.start1 - other_hunk.start1 <= 1) \/ (h.start2 - other_hunk.start2 <= 1)

\* does_overlap with the bound off by one: hunks that abut are not merged.
does_overlap_strict(h, other_hunk) ==
    (h.start1 - other_hunk.end1 < 1) \/ (h.start2 - other_hunk.end2 < 1)

does_overlap(h, other_hunk) ==
    (h.start1 - other_hunk.end1 <= 1) \/ (h.start2 - other_hunk.end2 <= 1)

prepend_hunk(h, other_hunk) ==
    [h EXCEPT !.start1 = other_hunk.start1,
              !.start2 = other_hunk.start2,
              !.blocks = other_hunk.blocks \o h.blocks]

\* Hunk.context_range
context_range(h, flag) ==
    LET start == (IF flag = 1 THEN h.start1 ELSE h.start2) + 1
        end == (IF flag = 1 THEN h.end1 ELSE h.end2) + 1
    IN IF start < end THEN Str(start) \o <<",">> \o Str(end) ELSE Str(end)

\* Hunk.unified_range: [ok, text]; the else branch reads the undefined name
\* `first`, a NameError.
unified_range(h, flag) ==
    LET start == (IF flag = 1 THEN h.start1 ELSE h.start2) + 1
        end == (IF flag = 1 THEN h.end1 ELSE h.end2) + 1
        length == end - start + 1
    IN IF length > 1
       THEN [ok |-> TRUE, err |-> "", text |-> Str(start) \o <<",">> \o Str(length)]
       ELSE [ok |-> FALSE, err |-> "NameError", text |-> <<>>]

\* The result of an output call: the lines it printed and the exception that ended it ("" for none).
Printed(lines) == [lines |-> lines, err |-> ""]
Raised(lines, err) == [lines |-> lines, err |-> err]

\* for i in range(lo, hi + 1): print(prefix + ref[i])
RECURSIVE PrintRange(_, _, _, _, _)
PrintRange(ref, lo, hi, prefix, out) ==
    IF lo > hi THEN Printed(out)
    ELSE IF ~InRange(ref, lo) THEN Raised(out, "IndexError")
    ELSE PrintRange(ref, lo + 1, hi, prefix, Append(out, prefix \o PyIndex(ref, lo)))

action_letter(block) ==
    CASE op(block) = "+" -> "a" [] op(block) = "-" -> "d" [] op(block) = "!" -> "c" [] OTHER -> "u"

\* Hunk.output_old_diff
output_old_diff(h, f1_ref, f2_ref) ==
    LET block == h.blocks[1]
        head == <<context_range(h, 1) \o <<action_letter(block)>> \o context_range(h, 2)>>
        p1 == IF removes(block) # <<>>
              THEN PrintRange(f1_ref, h.start1, h.end1, <<"<", " ">>, head)
              ELSE Printed(head)
        sep == IF op(block) = "!" THEN Append(p1.lines, <<"-", "-", "-">>) ELSE p1.lines
    IN IF p1.err # "" THEN p1
       ELSE IF inserts(block) # <<>>
            THEN PrintRange(f2_ref, h.start2, h.end2, <<">", " ">>, sep)
            ELSE Printed(sep)

\* any(i == c['item_no'] for block in self.blocks for c in block.removes())
is_removed(h, i) == \E n \in 1..Len(h.blocks) : \E c \in 1..Len(h.blocks[n]) :
                        h.blocks[n][c].sign = "-" /\ h.blocks[n][c].item_no = i
is_inserted(h, i) == \E n \in 1..Len(h.blocks) : \E c \in 1..Len(h.blocks[n]) :
                        h.blocks[n][c].sign = "+" /\ h.blocks[n][c].item_no = i

\* The while loop of output_unified_diff; the list is printed only after the loop.
RECURSIVE UnifiedLoop(_, _, _, _, _, _)
UnifiedLoop(h, f1_ref, f2_ref, i1, i2, outlist) ==
    IF ~(i1 <= h.end1 \/ i2 <= h.end2) THEN Printed(outlist)
    ELSE LET is_remove == i1 <= h.end1 /\ is_removed(h, i1)
             is_insert == i2 <= h.end2 /\ is_inserted(h, i2)
         IN IF is_remove /\ is_insert
            THEN IF ~InRange(f1_ref, i1) \/ ~InRange(f2_ref, i2) THEN Raised(<<>>, "IndexError")
                 ELSE UnifiedLoop(h, f1_ref, f2_ref, i1 + 1, i2 + 1,
                                  outlist \o <<<<"-">> \o PyIndex(f1_ref, i1),
                                               <<"+">> \o PyIndex(f2_ref, i2)>>)
            ELSE IF is_remove
            THEN IF ~InRange(f1_ref, i1) THEN Raised(<<>>, "IndexError")
                 ELSE UnifiedLoop(h, f1_ref, f2_ref, i1 + 1, i2,
                                  Append(outlist, <<"-">> \o PyIndex(f1_ref, i1)))
            ELSE IF is_insert
            THEN IF ~InRange(f2_ref, i2) THEN Raised(<<>>, "IndexError")
                 ELSE UnifiedLoop(h, f1_ref, f2_ref, i1, i2 + 1,
                                  Append(outlist, <<"+">> \o PyIndex(f2_ref, i2)))
            ELSE IF ~InRange(f1_ref, i1) THEN Raised(<<>>, "IndexError")
                 ELSE UnifiedLoop(h, f1_ref, f2_ref, i1 + 1, i2 + 1,
                                  Append(outlist, <<" ">> \o PyIndex(f1_ref, i1)))

unified_header(range1, range2) ==
    <<"@", "@", " ", "-">> \o range1 \o <<" ", "+">> \o range2 \o <<" ", "@", "@">>

\* Hunk.output_unified_diff
output_unified_diff(h, f1_ref, f2_ref) ==
    LET range1 == unified_range(h, 1)
        range2 == unified_range(h, 2)
    IN IF ~range1.ok THEN Raised(<<>>, range1.err)
       ELSE IF ~range2.ok THEN Raised(<<>>, range2.err)
       ELSE LET head == <<unified_header(range1.text, range2.text)>>
                body == UnifiedLoop(h, f1_ref, f2_ref, h.start1, h.start2, <<>>)
            IN IF body.err # "" THEN Raised(head, body.err)
               ELSE Printed(head \o (IF body.lines = <<>> THEN <<<<>>>> ELSE body.lines))

\* The (op, item_no) pairs of the blocks' removes (sign "-") or inserts (sign "+"),
\* in the order the marking loops of output_context_diff visit them.
RECURSIVE Marks(_, _)
Marks(blocks, sign) ==
    IF blocks = <<>> THEN <<>>
    ELSE LET block == Head(blocks)
             items == IF sign = "-" THEN removes(block) ELSE inserts(block)
         IN [k \in 1..Len(items) |-> [op |-> op(block), item_no |-> items[k].item_no]]
            \o Marks(Tail(blocks), sign)

\* outlist[item_no - start] = f"{op} {outlist[item_no - start].strip()}" for every mark
RECURSIVE MarkLines(_, _, _)
MarkLines(outlist, marks, start) ==
    IF marks = <<>> THEN Printed(outlist)
    ELSE LET idx == Head(marks).item_no - start IN
         IF ~InRange(outlist, idx) THEN Raised(<<>>, "IndexError")
         ELSE LET pos == IF idx >= 0 THEN idx + 1 ELSE Len(outlist) + idx + 1
                  line == <<Head(marks).op, " ">> \o Strip(outlist[pos])
              IN MarkLines([outlist EXCEPT ![pos] = line], Tail(marks), start)

\* One half of output_context_diff: the padded slice with its changed lines marked
ContextPart(h, ref, start, end, sign) ==
    LET slice == PySlice(ref, start, end + 1)
        padded == [k \in 1..Len(slice) |-> <<" ", " ">> \o slice[k]]
    IN MarkLines(padded, Marks(h.blocks, sign), start)

JoinPrinted(outlist) == IF outlist = <<>> THEN <<<<>>>> ELSE outlist

\* Hunk.output_context_diff
output_context_diff(h, f1_ref, f2_ref) ==
    LET stars == <<"*", "*", "*", "*", "*", "*", "*", "*", "*", "*", "*", "*", "*", "*", "*">>
        head1 == <<"*", "*", "*", " ">> \o context_range(h, 1) \o <<" ", "*", "*", "*", "*">>
        head2 == <<"-", "-", "-", " ">> \o context_range(h, 2) \o <<" ", "-", "-", "-", "-">>
        any_removes == \E n \in 1..Len(h.blocks) : removes(h.blocks[n]) # <<>>
        any_inserts == \E n \in 1..Len(h.blocks) : inserts(h.blocks[n]) # <<>>
        part1 == ContextPart(h, f1_ref, h.start1, h.end1, "-")
        part2 == ContextPart(h, f2_ref, h.start2, h.end2, "+")
        out1 == <<stars, head1>> \o (IF any_removes THEN JoinPrinted(part1.lines) ELSE <<>>)
        out2 == Append(out1, head2)
    IN IF any_removes /\ part1.err # "" THEN Raised(<<stars, head1>>, part1.err)
       ELSE IF any_inserts /\ part2.err # "" THEN Raised(out2, part2.err)
       ELSE Printed(out2 \o (IF any_inserts THEN JoinPrinted(part2.lines) ELSE <<>>))

\* output_ed_diff printing the range of a REVERSE_ED command with its comma
output_ed_diff_keep_comma(h, f1_ref, f2_ref, type) ==
    LET block == h.blocks[1]
        range1 == context_range(h, 1)
        head == IF type = "REVERSE_ED"
                THEN <<action_letter(block)>> \o range1
                ELSE range1 \o <<action_letter(block)>>
    IN IF inserts(block) # <<>>
       THEN LET body == PrintRange(f2_ref, h.start2, h.end2, <<>>, <<head>>)
            IN IF body.err # "" THEN body ELSE Printed(Append(body.lines, <<".">>))
       ELSE Printed(<<head>>)

\* Hunk.output_ed_diff
output_ed_diff(h, f1_ref, f2_ref, type) ==
    LET block == h.blocks[1]
        range1 == context_range(h, 1)
        head == IF type = "REVERSE_ED"
                THEN <<action_letter(block)>>
                     \o [k \in 1..Len(range1) |-> IF range1[k] = "," THEN " " ELSE range1[k]]
                ELSE range1 \o <<action_letter(block)>>
    IN IF inserts(block) # <<>>
       THEN LET body == PrintRange(f2_ref, h.start2, h.end2, <<>>, <<head>>)
            IN IF body.err # "" THEN body ELSE Printed(Append(body.lines, <<".">>))
       ELSE Printed(<<head>>)

\* ------------------------------------------------------------------ diff.py: main program
Lines == {<<"a">>, <<"b">>}

\* The sequences over S of length at most n
SeqsUpTo(S, n) == UNION {[1..k -> S] : k \in 0..n}

Files == SeqsUpTo(Lines, MaxLen)

DiffTypes == {"OLD", "CONTEXT", "UNIFIED", "ED", "REVERSE_ED"}

\* The context lengths the option parsing can pair with a diff type (diff.py:326-344)
ContextsOf(type) == IF type \in {"CONTEXT", "UNIFIED"} THEN 0..MaxContext ELSE {0}

\* file1 is '-' (standard input), file2 a named file
file1 == <<"-">>
file2 == <<"f", "2">>
mtime1 == <<"N", "/", "A">>
mtime2 == <<"T">>

\* print(f"Files {file1} and {file2} differ")   (diff.py:384)
differ_message ==
    <<"F", "i", "l", "e", "s", " ">> \o file1 \o <<" ", "a", "n", "d", " ">> \o file2
    \o <<" ", "d", "i", "f", "f", "e", "r">>

\* The two header lines of diff.py:387-393
file_header(type) ==
    LET char1 == IF type = "CONTEXT" THEN <<"*", "*", "*">> ELSE <<"-", "-", "-">>
        char2 == IF type = "CONTEXT" THEN <<"-", "-", "-">> ELSE <<"+", "+", "+">>
    IN <<char1 \o <<" ">> \o file1 \o <<"\t">> \o mtime1,
         char2 \o <<" ">> \o file2 \o <<"\t">> \o mtime2>>

\* The if/elif chain of diff.py:402-406 and 411-415 for one hunk
method_of(type) ==
    CASE type = "OLD" -> "output_old_diff"
      [] type = "CONTEXT" -> "output_context_diff"
      [] type = "UNIFIED" -> "output_unified_diff"
      [] type = "ED" -> "store_ed_diff"
      [] type = "REVERSE_ED" -> "output_ed_diff"

output_hunk(h, type, f1_ref, f2_ref) ==
    CASE type = "OLD" -> output_old_diff(h, f1_ref, f2_ref)
      [] type = "CONTEXT" -> output_context_diff(h, f1_ref, f2_ref)
      [] type = "UNIFIED" -> output_unified_diff(h, f1_ref, f2_ref)
      [] type = "ED" -> Printed(<<>>)
      [] type = "REVERSE_ED" -> output_ed_diff(h, f1_ref, f2_ref, "REVERSE_ED")

Call(method, h, res) == [method |-> method, hunk |-> h, lines |-> res.lines, err |-> res.err]

\* The queue printed from its right end, the hunk queued first coming out first
RECURSIVE PrintEdOldestFirst(_, _, _, _)
PrintEdOldestFirst(queue, f1_ref, f2_ref, done) ==
    IF queue = <<>> THEN done
    ELSE LET oldest == queue[Len(queue)]
             res == output_ed_diff(oldest, f1_ref, f2_ref, "ED")
             next == Append(done, Call("output_ed_diff", oldest, res))
         IN IF res.err # "" THEN next
            ELSE PrintEdOldestFirst(SubSeq(queue, 1, Len(queue) - 1), f1_ref, f2_ref, next)

\* for hunk in ed_hunks: hunk.output_ed_diff(f1, f2, 'ED')   (diff.py:417-419)
RECURSIVE PrintEd(_, _, _, _)
PrintEd(queue, f1_ref, f2_ref, done) ==
    IF queue = <<>> THEN done
    ELSE LET res == output_ed_diff(Head(queue), f1_ref, f2_ref, "ED")
             next == Append(done, Call("output_ed_diff", Head(queue), res))
         IN IF res.err # "" THEN next ELSE PrintEd(Tail(queue), f1_ref, f2_ref, next)

CallLines(cs) == Flatten([k \in 1..Len(cs) |-> cs[k].lines])
CallError(cs) == IF cs # <<>> /\ cs[Len(cs)].err # "" THEN cs[Len(cs)].err ELSE ""

\* The merge test of diff.py:398
merges(h, old, ctx) == old # <<>> /\ ctx > 0 /\ does_overlap(h, old[1])

PatchIdle ==
    /\ ppc = "idle"
    /\ options = [has_fh |-> FALSE, reverse |-> FALSE, fuzz |-> 2, ifdef |-> <<>>]
    /\ patch_source = <<>>
    /\ patch_text = <<>>
    /\ i_fh = [lines |-> <<>>, pos |-> 0]
    /\ o_fh = <<>>
    /\ orig = <<>>
    /\ garbage = <<>>
    /\ hunk_no = 1
    /\ rejects = <<>>
    /\ i_lines = 0
    /\ o_lines = 0
    /\ stderr = <<>>
    /\ applied = <<>>
    /\ run = 0
    /\ p_exit = -1
    /\ p_error = ""

DiffInitial ==
    /\ pc = "start"
    /\ diffs = <<>>
    /\ piece_no = 1
    /\ old_hunk = <<>>
    /\ file_length_difference = 0
    /\ ed_hunks = <<>>
    /\ stdout = <<>>
    /\ calls = <<>>
    /\ earlier = <<>>
    /\ exit_code = -1
    /\ error = ""

Init ==
    /\ f1 \in Files
    /\ f2 \in Files
    /\ diff_type \in DiffTypes
    /\ context_lines \in ContextsOf(diff_type)
    /\ quiet \in BOOLEAN
    /\ DiffInitial
    /\ PatchIdle

\* diff.py:378-395: compare, leave when the files are identical or -q is given,
\* print the file header.
\* identical() calls options.get on an argparse Namespace, which has no such
\* attribute: the call raises AttributeError and the interpreter exits with status 1.
DiffStart ==
    /\ pc = "start"
    /\ diffs' = diff(f1, f2)
    /\ IF diffs' = <<>>
       THEN /\ pc' = "crash"
            /\ error' = "AttributeError"
            /\ exit_code' = 1
            /\ stdout' = stdout
       ELSE IF quiet
       THEN /\ pc' = "done"
            /\ stdout' = Append(stdout, differ_message)
            /\ exit_code' = 1
            /\ error' = error
       ELSE /\ pc' = "loop"
            /\ stdout' = IF diff_type \in {"CONTEXT", "UNIFIED"}
                         THEN stdout \o file_header(diff_type) ELSE stdout
            /\ UNCHANGED <<error, exit_code>>
    /\ UNCHANGED <<f1, f2, context_lines, diff_type, quiet, piece_no, old_hunk,
                   file_length_difference, ed_hunks, calls, earlier>>
    /\ UNCHANGED pvars

\* diff.py:396-408: one iteration of `for piece in diffs`
DiffPiece ==
    /\ pc = "loop"
    /\ piece_no <= Len(diffs)
    /\ LET piece == diffs[piece_no]
           new == HunkInit(piece, context_lines, file_length_difference, Len(f1), Len(f2))
       IN /\ file_length_difference' = HunkDrift(piece, file_length_difference)
          /\ IF merges(new, old_hunk, context_lines)
             THEN /\ old_hunk' = <<prepend_hunk(new, old_hunk[1])>>
                  /\ piece_no' = piece_no + 1
                  /\ UNCHANGED <<pc, stdout, calls, ed_hunks, error, exit_code>>
             ELSE IF old_hunk = <<>>
             THEN /\ old_hunk' = <<new>>
                  /\ piece_no' = piece_no + 1
                  /\ UNCHANGED <<pc, stdout, calls, ed_hunks, error, exit_code>>
             ELSE LET res == output_hunk(old_hunk[1], diff_type, f1, f2)
                  IN /\ stdout' = stdout \o res.lines
                     /\ calls' = Append(calls, Call(method_of(diff_type), old_hunk[1], res))
                     /\ ed_hunks' = IF diff_type = "ED" THEN <<old_hunk[1]>> \o ed_hunks
                                    ELSE ed_hunks
                     /\ IF res.err # ""
                        THEN /\ pc' = "crash"
                             /\ error' = res.err
                             /\ exit_code' = 1
                             /\ UNCHANGED <<old_hunk, piece_no>>
                        ELSE /\ old_hunk' = <<new>>
                             /\ piece_no' = piece_no + 1
                             /\ UNCHANGED <<pc, error, exit_code>>
    /\ UNCHANGED <<f1, f2, context_lines, diff_type, quiet, diffs, earlier>>
    /\ UNCHANGED pvars

\* diff.py:410-421: the pending hunk, then the queued ED hunks, then sys.exit(EX_DIFFERENT)
DiffFinish ==
    /\ pc = "loop"
    /\ piece_no > Len(diffs)
    /\ LET res == output_hunk(old_hunk[1], diff_type, f1, f2)
           last == Call(method_of(diff_type), old_hunk[1], res)
           queue == IF diff_type = "ED" THEN <<old_hunk[1]>> \o ed_hunks ELSE ed_hunks
           printed == IF diff_type = "ED" /\ res.err = ""
                      THEN PrintEd(queue, f1, f2, <<>>) ELSE <<>>
           failure == IF res.err # "" THEN res.err ELSE CallError(printed)
       IN /\ ed_hunks' = queue
          /\ calls' = Append(calls, last) \o printed
          /\ stdout' = stdout \o res.lines \o CallLines(printed)
          /\ error' = failure
          /\ pc' = IF failure # "" THEN "crash" ELSE "done"
          /\ exit_code' = 1
    /\ UNCHANGED <<f1, f2, context_lines, diff_type, quiet, diffs, piece_no, old_hunk,
                   file_length_difference, earlier>>
    /\ UNCHANGED pvars

DiffNext == DiffStart \/ DiffPiece \/ DiffFinish

\* The two-change scenarios: a file of FileLen numbered lines and the same file with
\* one line changed ("c"), deleted ("d") or preceded by a new line ("a") at each of
\* two places.
Numbered == [k \in 1..FileLen |-> Str(k)]

Edited(file, p, kind_p, q, kind_q) ==
    LET kind(k) == IF k = p THEN kind_p ELSE IF k = q THEN kind_q ELSE "="
        piece(k) == CASE kind(k) = "c" -> <<<<"x">>>>
                      [] kind(k) = "d" -> <<>>
                      [] kind(k) = "a" -> <<<<"x">>, file[k]>>
                      [] OTHER -> <<file[k]>>
    IN Flatten([k \in 1..Len(file) |-> piece(k)])

InitMerge ==
    /\ f1 = Numbered
    /\ \E p \in 1..MaxFirst, q \in 1..FileLen, kp \in {"c", "d", "a"}, kq \in {"c", "d", "a"} :
          p < q /\ f2 = Edited(Numbered, p, kp, q, kq)
    /\ diff_type \in {"CONTEXT", "UNIFIED"}
    /\ context_lines \in 0..DefaultContext
    /\ quiet = FALSE
    /\ DiffInitial
    /\ PatchIdle

SpecMerge == InitMerge /\ [][DiffNext]_vars

Spec == Init /\ [][DiffNext]_vars

\* ------------------------------------------------------------------ patch.py: Patch
\* reverse_hunk without its elif branch: added lines become removed lines, removed
\* lines stay as they are
reverse_hunk_adds_only(hunk) ==
    [k \in 1..Len(hunk) |->
        IF StartsWith(hunk[k], <<"+">>) THEN <<"-">> \o Tail(hunk[k]) ELSE hunk[k]]

\* Patch.reverse_hunk
reverse_hunk(hunk) ==
    [k \in 1..Len(hunk) |->
        IF StartsWith(hunk[k], <<"+">>) THEN <<"-">> \o Tail(hunk[k])
        ELSE IF StartsWith(hunk[k], <<"-">>) THEN <<"+">> \o Tail(hunk[k])
        ELSE hunk[k]]

\* in_fh.readline(): the line at the read position ('' at end of file, which strips
\* to the same text as a blank line) and the position after it
ReadLine(fh) ==
    IF fh.pos < Len(fh.lines)
    THEN [line |-> fh.lines[fh.pos + 1], eof |-> FALSE, fh |-> [fh EXCEPT !.pos = fh.pos + 1]]
    ELSE [line |-> <<>>, eof |-> TRUE, fh |-> fh]

\* in_fh.seek(0); for i in range(i_start - 1): in_fh.readline()
SeekLine(fh, i_start) == [fh EXCEPT !.pos = Max(0, Min(i_start - 1, Len(fh.lines)))]

\* The comparison loop of find_match: FALSE at the first context line that differs
\* from the file line read for it; the file is left where the loop stopped.
RECURSIVE MatchContext(_, _)
MatchContext(context, fh) ==
    IF context = <<>> THEN [ok |-> TRUE, fh |-> fh]
    ELSE LET rd == ReadLine(fh) IN
         IF Strip(Head(context)) # Strip(rd.line) THEN [ok |-> FALSE, fh |-> rd.fh]
         ELSE MatchContext(Tail(context), rd.fh)

ContextOf(hunk) ==
    LET ctx == SelectSeq(hunk, LAMBDA l : StartsWith(l, <<" ">>))
    IN [k \in 1..Len(ctx) |-> Tail(ctx[k])]

\* Patch.find_match: [found, position, fh]; position is [i_start - 1, 0].  The fuzz
\* the Patch holds is not a parameter: the method never reads self.fuzz.
find_match(i_start, hunk, fh) ==
    LET m == MatchContext(ContextOf(hunk), SeekLine(fh, i_start))
    IN [found |-> m.ok, position |-> <<i_start - 1, 0>>, fh |-> m.fh]

\* for _ in range(position[0]): out_fh.write(in_fh.readline())
RECURSIVE CopyLines(_, _, _)
CopyLines(n, fh, out) ==
    IF n <= 0 THEN [fh |-> fh, out |-> out]
    ELSE LET rd == ReadLine(fh)
         IN CopyLines(n - 1, rd.fh, IF rd.eof THEN out ELSE Append(out, rd.line))

\* Patch.apply's loop with the two conditionals exchanged: removed lines under
\* #ifdef, added lines under #ifndef
WrittenForSwapped(line, ifdef) ==
    LET cmd == Head(line)
        endif == <<"#", "e", "n", "d", "i", "f", " ", "/", "*", " ">> \o ifdef \o <<" ", "*", "/">>
    IN CASE cmd = "-" -> IF ifdef # <<>>
                         THEN <<<<"#", "i", "f", "d", "e", "f", " ">> \o ifdef, Tail(line), endif>>
                         ELSE <<>>
         [] cmd = "+" -> IF ifdef # <<>>
                         THEN <<<<"#", "i", "f", "n", "d", "e", "f", " ">> \o ifdef, Tail(line), endif>>
                         ELSE <<Tail(line)>>
         [] cmd = " " -> <<Tail(line)>>
         [] OTHER -> <<>>

\* What the loop `for line in hunk` of Patch.apply writes for one line
WrittenFor(line, ifdef) ==
    LET cmd == Head(line)
        endif == <<"#", "e", "n", "d", "i", "f", " ", "/", "*", " ">> \o ifdef \o <<" ", "*", "/">>
    IN CASE cmd = "-" -> IF ifdef # <<>>
                         THEN <<<<"#", "i", "f", "n", "d", "e", "f", " ">> \o ifdef, Tail(line), endif>>
                         ELSE <<>>
         [] cmd = "+" -> IF ifdef # <<>>
                         THEN <<<<"#", "i", "f", "d", "e", "f", " ">> \o ifdef, Tail(line), endif>>
                         ELSE <<Tail(line)>>
         [] cmd = " " -> <<Tail(line)>>
         [] OTHER -> <<>>

WrittenHunk(hunk, ifdef) == Flatten([k \in 1..Len(hunk) |-> WrittenFor(hunk[k], ifdef)])

CountCmd(hunk, cmds) == Len(SelectSeq(hunk, LAMBDA l : Head(l) \in cmds))

succeeded_note(n, line) ==
    <<<<"H", "u", "n", "k", " ", "#">> \o Str(n) \o <<" ", "s", "u", "c", "c", "e", "e", "d", "e", "d", " ", "a", "t", " ", "l", "i", "n", "e", " ">> \o Str(line) \o <<".">>>>

\* Patch.apply with a hunk that has no place put on the reject list (self.reject in
\* place of self.throw): the call returns and the run goes on
apply_rejecting(p, i_start, hunk_lines) ==
    LET hunk == IF p.options.reverse THEN reverse_hunk(hunk_lines) ELSE hunk_lines
        m == find_match(i_start, hunk, p.i_fh)
        copied == CopyLines(m.position[1], m.fh, p.o_fh)
        shown == p.o_lines + m.position[1]
    IN IF ~p.options.has_fh
       THEN [p |-> p, notes |-> <<>>, err |-> "KeyError", hunk |-> hunk, found |-> FALSE]
       ELSE IF ~m.found
       THEN [p |-> [p EXCEPT !.i_fh = m.fh, !.rejects = Append(p.rejects, hunk)],
             notes |-> <<>>, err |-> "", hunk |-> hunk, found |-> FALSE]
       ELSE [p |-> [p EXCEPT !.i_fh = copied.fh,
                             !.o_fh = copied.out \o WrittenHunk(hunk, p.options.ifdef),
                             !.i_lines = p.i_lines + m.position[1]
                                         + CountCmd(hunk, {"-", " "}),
                             !.o_lines = p.o_lines + m.position[1]
                                         + CountCmd(hunk, {"+", " "})],
             notes |-> succeeded_note(p.hunk, shown), err |-> "",
             hunk |-> hunk, found |-> TRUE]

\* Patch.apply(i_start, o_start, hunk) on a Patch p = [options, i_fh, o_fh, hunk,
\* rejects, i_lines, o_lines]: the Patch after the call, the notes written and the
\* exception that ended the call ("" for none).  self.skip is False in every Patch main builds.
\* options['i_fh'] is read first in find_match: KeyError when the key is absent.
\* A hunk with no place ends in self.throw, a method Patch does not have:
\* AttributeError.
apply(p, i_start, hunk_lines) ==
    LET hunk == IF p.options.reverse THEN reverse_hunk(hunk_lines) ELSE hunk_lines
        m == find_match(i_start, hunk, p.i_fh)
        copied == CopyLines(m.position[1], m.fh, p.o_fh)
        shown == p.o_lines + m.position[1]
    IN IF ~p.options.has_fh
       THEN [p |-> p, notes |-> <<>>, err |-> "KeyError", hunk |-> hunk, found |-> FALSE]
       ELSE IF ~m.found
       THEN [p |-> [p EXCEPT !.i_fh = m.fh], notes |-> <<>>, err |-> "AttributeError",
             hunk |-> hunk, found |-> FALSE]
       ELSE [p |-> [p EXCEPT !.i_fh = copied.fh,
                             !.o_fh = copied.out \o WrittenHunk(hunk, p.options.ifdef),
                             !.i_lines = p.i_lines + m.position[1]
                                         + CountCmd(hunk, {"-", " "}),
                             !.o_lines = p.o_lines + m.position[1]
                                         + CountCmd(hunk, {"+", " "})],
             notes |-> succeeded_note(p.hunk, shown), err |-> "",
             hunk |-> hunk, found |-> TRUE]

\* Patch.print_tail: shutil.copyfileobj(i_fh, o_fh) when both keys are present
print_tail(p) ==
    IF p.options.has_fh
    THEN [p EXCEPT !.o_fh = p.o_fh \o SubSeq(p.i_fh.lines, p.i_fh.pos + 1, Len(p.i_fh.lines)),
                   !.i_fh = [p.i_fh EXCEPT !.pos = Len(p.i_fh.lines)]]
    ELSE p

\* ------------------------------------------------------------------ patch.py: main
IsHeader(line) == StartsWith(line, <<"-", "-", "-", " ">>)
IsBody(line) == StartsWith(line, <<"+">>) \/ StartsWith(line, <<"-">>) \/ StartsWith(line, <<" ">>)

\* The inner loop of patch.py:309-313: the lines appended to hunk
RECURSIVE BodyOf(_)
BodyOf(source) ==
    IF source = <<>> \/ ~IsBody(Head(source)) THEN <<>>
    ELSE <<Head(source)>> \o BodyOf(Tail(source))

\* What is left of the patch after the inner loop: the line that ended the body has
\* been read too.
AfterBody(source) ==
    LET n == Len(BodyOf(source)) IN SubSeq(source, n + 2, Len(source))

leading_note(g) == IF g # <<>> THEN <<<<"T", "h", "e", " ", "t", "e", "x", "t", " ", "l", "e", "a", "d", "i", "n", "g", " ", "u", "p", " ", "t", "o", " ", "t", "h", "i", "s", " ", "w", "a", "s", ":">>>> \o g ELSE <<>>
applying_note(n) == <<<<"A", "p", "p", "l", "y", "i", "n", "g", " ", "u", "n", "i", "f", "i", "e", "d", " ", "d", "i", "f", "f", " ", "h", "u", "n", "k", " ", "#">> \o Str(n)>>

ThePatch == [options |-> options, i_fh |-> i_fh, o_fh |-> o_fh, hunk |-> hunk_no,
             rejects |-> rejects,
             i_lines |-> i_lines, o_lines |-> o_lines]

\* Patch(parsed_options[0]) and the first lines of main: a fresh Patch on the patch
\* stream `text` and the target `target`.
Invoke(text, target, opts) ==
    /\ ppc' = "reading"
    /\ options' = opts
    /\ patch_source' = text
    /\ patch_text' = text
    /\ i_fh' = [lines |-> target, pos |-> 0]
    /\ o_fh' = <<>>
    /\ garbage' = <<>>
    /\ hunk_no' = 1
    /\ rejects' = <<>>
    /\ i_lines' = 0
    /\ o_lines' = 0
    /\ stderr' = <<>>
    /\ p_exit' = -1
    /\ p_error' = ""

\* patch.py:318-319: a line that is no header
PatchGarbage ==
    /\ ppc = "reading"
    /\ patch_source # <<>>
    /\ ~IsHeader(Head(patch_source))
    /\ garbage' = Append(garbage, Head(patch_source))
    /\ patch_source' = Tail(patch_source)
    /\ UNCHANGED <<ppc, options, patch_text, i_fh, o_fh, orig, hunk_no, rejects, i_lines,
                   o_lines, stderr, applied, run, p_exit, p_error>>
    /\ UNCHANGED dvars

\* patch.py:297-317: a `--- ` line, the body lines after it, Patch.apply on them
PatchHunk ==
    /\ ppc = "reading"
    /\ patch_source # <<>>
    /\ IsHeader(Head(patch_source))
    /\ LET hunk == BodyOf(Tail(patch_source))
           i_start == 1
           res == apply(ThePatch, i_start, hunk)
       IN /\ patch_source' = AfterBody(Tail(patch_source))
          /\ stderr' = stderr \o leading_note(garbage) \o applying_note(hunk_no) \o res.notes
          /\ i_fh' = res.p.i_fh
          /\ o_fh' = res.p.o_fh
          /\ i_lines' = res.p.i_lines
          /\ o_lines' = res.p.o_lines
          /\ rejects' = res.p.rejects
          /\ applied' = Append(applied, [run |-> run, hunk_no |-> hunk_no, hunk |-> res.hunk,
                                         found |-> res.found, err |-> res.err,
                                         before |-> o_fh, target |-> i_fh.lines,
                                         fuzz |-> options.fuzz,
                                         reverse |-> options.reverse,
                                         i_start |-> i_start, body |-> hunk,
                                         ifdef |-> options.ifdef,
                                         written |-> SubSeq(res.p.o_fh, Len(o_fh) + 1, Len(res.p.o_fh)),
                                         sought |-> find_match(i_start, res.hunk, i_fh).position[1] + 1])
          /\ IF res.err # ""
             THEN /\ ppc' = "crash"
                  /\ p_error' = res.err
                  /\ p_exit' = 1
                  /\ UNCHANGED <<hunk_no, garbage>>
             ELSE /\ hunk_no' = hunk_no + 1
                  /\ garbage' = <<>>
                  /\ UNCHANGED <<ppc, p_error, p_exit>>
    /\ UNCHANGED <<options, patch_text, orig, run>>
    /\ UNCHANGED dvars

\* patch.py:294-295 and 321-324: end of the patch stream
PatchEof ==
    /\ ppc = "reading"
    /\ patch_source = <<>>
    /\ ppc' = "exit"
    /\ p_exit' = IF rejects # <<>> THEN EX_REJECTS ELSE EX_SUCCESS
    /\ UNCHANGED <<options, patch_source, patch_text, i_fh, o_fh, orig, garbage, hunk_no,
                   rejects, i_lines, o_lines, stderr, applied, run, p_error>>
    /\ UNCHANGED dvars

rejects_note(r, n) ==
    <<Str(Len(r)) \o <<" ", "o", "u", "t", " ", "o", "f", " ">> \o Str(n) \o <<" ", "h", "u", "n", "k", "s", " ", "i", "g", "n", "o", "r", "e", "d", "-", "-", "s", "a", "v", "i", "n", "g", " ", "r", "e", "j", "e", "c", "t", "s", " ", "t", "o", " ", "p", "a", "t", "c", "h", ".", "r", "e", "j">>,
      <<>>>>

\* Patch.end(): print_tail (self.skip is False), print_rejects, remove_empty_files
\* (the key 'remove-empty-files' is never in the options).  main never calls it; the
\* step is the call a user of the class makes once the patch stream is read.
PatchEnd ==
    /\ ppc = "exit"
    /\ ppc' = "ended"
    /\ o_fh' = print_tail(ThePatch).o_fh
    /\ i_fh' = print_tail(ThePatch).i_fh
    /\ stderr' = IF rejects # <<>> THEN stderr \o rejects_note(rejects, hunk_no) ELSE stderr
    /\ UNCHANGED <<options, patch_source, patch_text, orig, garbage, hunk_no, rejects,
                   i_lines, o_lines, applied, run, p_exit, p_error>>
    /\ UNCHANGED dvars

\* A second run of patch with the same patch stream on the output of the first, with
\* or without -R.
PatchAgain ==
    /\ ppc = "ended"
    /\ run = 1
    /\ options.has_fh
    /\ \E rev \in BOOLEAN : Invoke(patch_text, o_fh, [options EXCEPT !.reverse = rev])
    /\ run' = 2
    /\ UNCHANGED <<orig, applied>>
    /\ UNCHANGED dvars

\* ---- patch on a patch stream and a target drawn from small sets
\* The hunk header `@@ -1,2 +1,2 @@`: two old lines and two new lines declared
CountedHeader == <<"@", "@", " ", "-", "1", ",", "2", " ", "+", "1", ",", "2", " ", "@", "@">>
PatchLines == {<<"-", "-", "-", " ", "f">>, <<" ", "a">>, <<"-", "a">>, <<"+", "b">>, CountedHeader}
Streams == SeqsUpTo(PatchLines, MaxStream)
Targets == SeqsUpTo(Lines, MaxTarget)
Symbols == {<<>>, <<"S">>}
\* With no file handles in the options (the options main builds) the other options
\* are left at their defaults: the first hunk ends the run whatever they are.
OptionSets ==
    [has_fh : {TRUE}, reverse : BOOLEAN, fuzz : 0..MaxFuzz, ifdef : Symbols]
    \cup {[has_fh |-> FALSE, reverse |-> FALSE, fuzz |-> 2, ifdef |-> <<>>]}

PatchInvoke ==
    /\ ppc = "idle"
    /\ pc = "off"
    /\ \E text \in Streams, target \in Targets, opts \in OptionSets :
          /\ Invoke(text, target, opts)
          /\ orig' = target
    /\ run' = 1
    /\ UNCHANGED applied
    /\ UNCHANGED dvars

InitPatch ==
    /\ f1 = <<>>
    /\ f2 = <<>>
    /\ diff_type = "OLD"
    /\ context_lines = 0
    /\ quiet = FALSE
    /\ pc = "off"
    /\ diffs = <<>>
    /\ piece_no = 1
    /\ old_hunk = <<>>
    /\ file_length_difference = 0
    /\ ed_hunks = <<>>
    /\ stdout = <<>>
    /\ calls = <<>>
    /\ earlier = <<>>
    /\ exit_code = -1
    /\ error = ""
    /\ PatchIdle

PatchNext == PatchInvoke \/ PatchGarbage \/ PatchHunk \/ PatchEof \/ PatchEnd \/ PatchAgain

SpecPatch == InitPatch /\ [][PatchNext]_vars

\* ---- patch on the patch streams of at most MaxShort lines, with the default fuzz
ShortOptions ==
    [has_fh : {TRUE}, reverse : BOOLEAN, fuzz : {2}, ifdef : Symbols]
    \cup {[has_fh |-> FALSE, reverse |-> FALSE, fuzz |-> 2, ifdef |-> <<>>]}

ShortInvoke ==
    /\ ppc = "idle"
    /\ pc = "off"
    /\ \E text \in SeqsUpTo(PatchLines, MaxShort), target \in Targets, opts \in ShortOptions :
          /\ Invoke(text, target, opts)
          /\ orig' = target
    /\ run' = 1
    /\ UNCHANGED applied
    /\ UNCHANGED dvars

ShortNext == ShortInvoke \/ PatchGarbage \/ PatchHunk \/ PatchEof \/ PatchEnd \/ PatchAgain

SpecShort == InitPatch /\ [][ShortNext]_vars

\* ---- patch -D S on hunks that may remove a line of C source that is itself a
\* directive
EndifLine == <<"-", "#", "e", "n", "d", "i", "f">>
IfdefLines == {<<"-", "-", "-", " ", "f">>, <<" ", "a">>, <<"-", "a">>, <<"+", "b">>, EndifLine}

IfdefInvoke ==
    /\ ppc = "idle"
    /\ pc = "off"
    /\ \E text \in SeqsUpTo(IfdefLines, MaxStream), target \in Targets :
          /\ Invoke(text, target, [has_fh |-> TRUE, reverse |-> FALSE, fuzz |-> 2,
                                   ifdef |-> <<"S">>])
          /\ orig' = target
    /\ run' = 1
    /\ UNCHANGED applied
    /\ UNCHANGED dvars

IfdefNext == IfdefInvoke \/ PatchGarbage \/ PatchHunk \/ PatchEof \/ PatchEnd

SpecIfdef == InitPatch /\ [][IfdefNext]_vars

\* ---- patch on the output of diff: the patch stream is what diff printed for
\* (f1, f2), the target is f1.
PatchPipe ==
    /\ ppc = "idle"
    /\ pc = "done"
    /\ ~quiet
    /\ \E fh \in BOOLEAN :
          Invoke(stdout, f1, [has_fh |-> fh, reverse |-> FALSE, fuzz |-> 2, ifdef |-> <<>>])
    /\ orig' = f1
    /\ run' = 1
    /\ UNCHANGED applied
    /\ UNCHANGED dvars

RoundTripNext ==
    DiffStart \/ DiffPiece \/ DiffFinish \/ PatchPipe \/ PatchGarbage \/ PatchHunk
    \/ PatchEof \/ PatchEnd \/ PatchAgain

SpecRoundTrip == Init /\ [][RoundTripNext]_vars

\* ------------------------------------------------------------------ properties of diff
\* The changes of all blocks, in order
Changes == Flatten(diffs)

Indices(changes, sign) ==
    {changes[k].item_no : k \in {n \in 1..Len(changes) : changes[n].sign = sign}}

\* s without the items at the 0-based indices in drop
Without(s, drop) == LET keep(k) == (k - 1) \notin drop
                    IN SelectSeq([k \in 1..Len(s) |-> <<k, s[k]>>], LAMBDA e : keep(e[1]))

Items(pairs) == [k \in 1..Len(pairs) |-> pairs[k][2]]

\* A with the '-' indices deleted, then B's item put at every '+' index of the result;
\* <<"?">> stands where the script names an index outside B or leaves a gap.
RECURSIVE Rebuild(_, _, _, _, _)
Rebuild(kept, b, plus, p, n) ==
    IF p >= n THEN <<>>
    ELSE IF p \in plus
         THEN <<IF p < Len(b) THEN b[p + 1] ELSE <<"?">>>> \o Rebuild(kept, b, plus, p + 1, n)
         ELSE IF kept = <<>> THEN <<<<"?">>>> \o Rebuild(kept, b, plus, p + 1, n)
         ELSE <<Head(kept)>> \o Rebuild(Tail(kept), b, plus, p + 1, n)

ApplyChanges(a, b, changes) ==
    LET kept == Items(Without(a, Indices(changes, "-")))
        plus == Indices(changes, "+")
    IN Rebuild(kept, b, plus, 0, Len(kept) + Cardinality(plus))

\* C1 (Reconstruction): once diff(f1, f2) has run, deleting from f1 every index its
\* changes mark '-' and inserting f2's item at every index marked '+' gives exactly
\* f2; and f1 without its '-' indices equals f2 without its '+' indices.
C1_Reconstruction ==
    pc # "start" =>
        /\ ApplyChanges(f1, f2, Changes) = f2
        /\ Items(Without(f1, Indices(Changes, "-"))) = Items(Without(f2, Indices(Changes, "+")))

\* a script with a deletion, an insertion and a kept line
C1_Witness ==
    /\ pc = "loop"
    /\ Indices(Changes, "-") # {}
    /\ Indices(Changes, "+") # {}
    /\ Len(f1) > Cardinality(Indices(Changes, "-"))
    /\ ApplyChanges(f1, f2, Changes) = f2

\* Reference: the length of a longest common subsequence, by enumeration of the
\* subsequences of a.
RECURSIVE IsSubseq(_, _)
IsSubseq(s, t) ==
    IF s = <<>> THEN TRUE
    ELSE IF t = <<>> THEN FALSE
    ELSE IF Head(s) = Head(t) THEN IsSubseq(Tail(s), Tail(t))
    ELSE IsSubseq(s, Tail(t))

SetMax(S) == CHOOSE x \in S : \A y \in S : y <= x

LCS(a, b) ==
    SetMax({Cardinality(keep) : keep \in
              {k \in SUBSET (1..Len(a)) :
                 IsSubseq(Items(Without(a, {n - 1 : n \in (1..Len(a)) \ k})), b)}})

\* C3 (Minimality): the number of '+' and '-' changes returned by diff(f1, f2) is
\* |f1| + |f2| - 2 * LCS(f1, f2), the least any insert/delete script can have.
C3_Minimality ==
    pc # "start" => Len(Changes) = Len(f1) + Len(f2) - 2 * LCS(f1, f2)

\* two files with a common subsequence of two lines that are not adjacent in both
C3_Witness ==
    /\ pc = "loop"
    /\ LCS(f1, f2) >= 2
    /\ Len(Changes) >= 2
    /\ Len(Changes) = Len(f1) + Len(f2) - 2 * LCS(f1, f2)

\* The number of kept lines in front of each change: the lines between it and the
\* change before it (i and j count the lines of f1 and f2 already passed).
RECURSIVE KeptBefore(_, _, _)
KeptBefore(changes, i, j) ==
    IF changes = <<>> THEN <<>>
    ELSE LET c == Head(changes)
             kept == IF c.sign = "-" THEN c.item_no - i ELSE c.item_no - j
         IN <<kept>> \o KeptBefore(Tail(changes),
                                   i + kept + (IF c.sign = "-" THEN 1 ELSE 0),
                                   j + kept + (IF c.sign = "+" THEN 1 ELSE 0))

\* The number of unchanged lines between block k - 1 and block k of diffs
Gap(k) == KeptBefore(Changes, 0, 0)[1 + SeqSum([n \in 1..(k - 1) |-> Len(diffs[n])])]

\* The hunks the main program handed to an output method, in order
Emitted == SelectSeq(calls, LAMBDA c : c.method # "output_ed_diff" \/ diff_type = "REVERSE_ED")

HasBlock(h, block) == \E n \in 1..Len(h.blocks) : h.blocks[n] = block
SameHunk(k) == \E n \in 1..Len(Emitted) :
                  HasBlock(Emitted[n].hunk, diffs[k - 1]) /\ HasBlock(Emitted[n].hunk, diffs[k])

Finished == pc = "done" /\ ~quiet

\* C8 (Merge boundary): with context c > 0, when all hunks have been output, two
\* consecutive blocks are in the same hunk exactly when at most 2c unchanged lines
\* separate them; with c = 3, single-line changes at lines 5 and 8 of the numbered
\* file give one hunk and single-line changes at lines 5 and 20 give two.
C8_MergeBoundary ==
    (Finished /\ context_lines > 0) =>
        /\ \A k \in 2..Len(diffs) : SameHunk(k) <=> Gap(k) <= 2 * context_lines
        /\ (context_lines = 3 /\ f1 = Numbered /\ f2 = Edited(Numbered, 5, "c", 8, "c"))
              => Len(Emitted) = 1
        /\ (context_lines = 3 /\ f1 = Numbered /\ f2 = Edited(Numbered, 5, "c", 20, "c"))
              => Len(Emitted) = 2

\* the scenario of lines 5 and 20, and a pair of blocks exactly 2c + 1 lines apart
C8_Witness ==
    /\ Finished
    /\ context_lines = 3
    /\ f1 = Numbered
    /\ f2 = Edited(Numbered, 5, "c", 20, "c")
    /\ Len(Emitted) = 2
    /\ Len(diffs) = 4

\* ------------------------------------------------------------------ properties of the unified output
UnifiedCalls == SelectSeq(calls, LAMBDA c : c.method = "output_unified_diff")

\* The header the unified format prescribes for the ranges of hunk h
PrescribedHeader(h) ==
    <<"@", "@", " ", "-">> \o Str(h.start1 + 1) \o <<",">> \o Str(h.end1 - h.start1 + 1)
    \o <<" ", "+">> \o Str(h.start2 + 1) \o <<",">> \o Str(h.end2 - h.start2 + 1)
    \o <<" ", "@", "@">>

\* C9 (Unified header): every call of output_unified_diff completes without an
\* exception and prints first the header `@@ -a1,lenA +b1,lenB @@` of its hunk's
\* ranges, whatever their lengths.
C9_UnifiedHeader ==
    \A n \in 1..Len(UnifiedCalls) :
        LET c == UnifiedCalls[n] IN
        /\ c.err = ""
        /\ c.lines # <<>>
        /\ c.lines[1] = PrescribedHeader(c.hunk)

\* The body lines of a completed call whose prefix is in marks, without the prefix
Side(c, marks) ==
    LET body == SubSeq(c.lines, 2, Len(c.lines))
        picked == SelectSeq(body, LAMBDA l : l # <<>> /\ Head(l) \in marks)
    IN [k \in 1..Len(picked) |-> Tail(picked[k])]

\* C10 (Unified body order): no call of output_unified_diff ends in an IndexError,
\* and for every call that completes the ' ' and '-' body lines in emitted order are
\* f1[start1..end1] and the ' ' and '+' body lines are f2[start2..end2].
C10_UnifiedBody ==
    \A n \in 1..Len(UnifiedCalls) :
        LET c == UnifiedCalls[n] IN
        /\ c.err # "IndexError"
        /\ c.err = "" =>
             /\ Side(c, {" ", "-"}) = SubSeq(f1, c.hunk.start1 + 1, c.hunk.end1 + 1)
             /\ Side(c, {" ", "+"}) = SubSeq(f2, c.hunk.start2 + 1, c.hunk.end2 + 1)

\* a completed call for a hunk of two blocks with context, removed and added lines
C10_Witness ==
    \E n \in 1..Len(UnifiedCalls) :
        LET c == UnifiedCalls[n] IN
        /\ c.err = ""
        /\ Len(c.hunk.blocks) >= 2
        /\ Side(c, {" "}) # <<>>
        /\ Side(c, {"-"}) # <<>>
        /\ Side(c, {"+"}) # <<>>
        /\ Side(c, {" ", "-"}) = SubSeq(f1, c.hunk.start1 + 1, c.hunk.end1 + 1)

\* ------------------------------------------------------------------ properties of patch
Run(n) == SelectSeq(applied, LAMBDA r : r.run = n)

\* The old side (' ' and '-' lines) and the new side (' ' and '+' lines) of a hunk
OldSide(hunk) == LET l == SelectSeq(hunk, LAMBDA x : Head(x) \in {" ", "-"})
                 IN [k \in 1..Len(l) |-> Tail(l[k])]
NewSide(hunk) == LET l == SelectSeq(hunk, LAMBDA x : Head(x) \in {" ", "+"})
                 IN [k \in 1..Len(l) |-> Tail(l[k])]

PatchOver == ppc \in {"ended", "crash"}

\* C2 (Round trip): for each of the four formats, when patch (given its input and
\* output files) has read what diff printed for (f1, f2) and applied it to f1, tail
\* copy included, its output is f2.
C2_RoundTrip ==
    (PatchOver /\ run = 1 /\ options.has_fh /\ diff_type \in {"OLD", "UNIFIED", "CONTEXT", "ED"})
        => o_fh = f2

\* The first run applied one hunk, at line 1, whose old side is the start of the
\* target: the hunk diff gives for the target and the output of the run.
FromCompare ==
    /\ Len(Run(1)) = 1
    /\ Run(1)[1].found
    /\ ~Run(1)[1].reverse
    /\ Len(OldSide(Run(1)[1].hunk)) <= Len(orig)
    /\ OldSide(Run(1)[1].hunk) = SubSeq(orig, 1, Len(OldSide(Run(1)[1].hunk)))

\* C4 (Inverse): after a hunk set derived from a comparison has been applied to the
\* target and then applied in reverse mode to the result, the output is the target.
C4_Inverse ==
    (ppc = "ended" /\ run = 2 /\ options.reverse /\ options.ifdef = <<>> /\ FromCompare)
        => o_fh = orig

\* C5 (Idempotence): when a patch that applied is applied a second time to its own
\* output, no hunk finds a place again, so no added line is written twice; stated
\* for the hunks that take a line out and put a line in, whose old side cannot be
\* in the output of the first run.
C5_Idempotence ==
    (run = 2 /\ ~options.reverse /\ FromCompare) =>
        \A n \in 1..Len(Run(2)) :
            (CountCmd(Run(2)[n].hunk, {"+"}) > 0 /\ CountCmd(Run(2)[n].hunk, {"-"}) > 0)
                => ~Run(2)[n].found

\* Exactly one context line of the hunk differs from the target line it stands for
\* (the hunk is placed at line 1), and the removed lines are the target's.
OneContextLineAltered(r) ==
    LET old == SelectSeq(r.hunk, LAMBDA x : Head(x) \in {" ", "-"})
        differs(k) == Tail(old[k]) # r.target[k]
    IN /\ Len(old) <= Len(r.target)
       /\ \A k \in 1..Len(old) : Head(old[k]) = "-" => ~differs(k)
       /\ Cardinality({k \in 1..Len(old) : Head(old[k]) = " " /\ differs(k)}) = 1

\* C6 (Fuzz boundary): a hunk whose target differs from its context in exactly one
\* context line finds a place when the Patch's fuzz is >= 1 and none when it is 0.
C6_FuzzBoundary ==
    \A n \in 1..Len(applied) :
        LET r == applied[n] IN
        (r.err # "KeyError" /\ OneContextLineAltered(r)) => (r.found <=> r.fuzz >= 1)

\* C7 (Reject handling): a hunk for which find_match finds no place is put on the
\* reject list, the output is left as it was, and the run goes on with the rest of
\* the patch stream instead of ending.
C7_RejectHandling ==
    \A n \in 1..Len(Run(run)) :
        LET r == Run(run)[n] IN
        (r.err # "KeyError" /\ ~r.found) =>
            /\ Len(rejects) >= 1
            /\ ppc # "crash"
            /\ p_error = ""

\* ------------------------------------------------------------------ properties of the context output
ContextCalls == SelectSeq(calls, LAMBDA c : c.method = "output_context_diff")

HasRemoves(h) == \E n \in 1..Len(h.blocks) : removes(h.blocks[n]) # <<>>
HasInserts(h) == \E n \in 1..Len(h.blocks) : inserts(h.blocks[n]) # <<>>

\* The mark the context format prescribes for the changed lines of hunk h
HunkMark(h) == IF HasRemoves(h) /\ HasInserts(h) THEN "!"
               ELSE IF HasRemoves(h) THEN "-" ELSE "+"

\* The 0-based indices hunk h changes on the side of sign
ChangedIn(h, sign) ==
    UNION {Indices(h.blocks[n], sign) : n \in 1..Len(h.blocks)}

\* The body lines of one side of a hunk as the context format prescribes them:
\* ref[start..end], a changed line behind the hunk's mark and a space, an unchanged
\* line behind two spaces.
PrescribedSide(h, ref, start, end, sign) ==
    [k \in 1..(end - start + 1) |->
        (IF (start + k - 1) \in ChangedIn(h, sign) THEN <<HunkMark(h), " ">> ELSE <<" ", " ">>)
        \o ref[start + k]]

\* The lines of a completed call between the `*** r ****` and the `--- r ----` line
\* (side 1) or after the `--- r ----` line (side 2)
PrintedSide(c, side) ==
    LET split == IF HasRemoves(c.hunk) THEN 3 + (c.hunk.end1 - c.hunk.start1 + 1) ELSE 3
    IN IF side = 1 THEN SubSeq(c.lines, 3, split - 1)
       ELSE SubSeq(c.lines, split + 1, Len(c.lines))

\* C11 (Context format marks): in every completed call of output_context_diff the
\* changed lines carry '-' in a hunk that only deletes, '+' in a hunk that only
\* inserts and '!' in a hunk that has removed and added lines, and the unchanged
\* lines are padded with two spaces.
C11_ContextMarks ==
    \A n \in 1..Len(ContextCalls) :
        LET c == ContextCalls[n]
            h == c.hunk
        IN c.err = "" =>
             /\ HasRemoves(h) =>
                  PrintedSide(c, 1) = PrescribedSide(h, f1, h.start1, h.end1, "-")
             /\ HasInserts(h) =>
                  PrintedSide(c, 2) = PrescribedSide(h, f2, h.start2, h.end2, "+")

\* ------------------------------------------------------------------ properties of the ED output
\* The hunks the main loop queued with store_ed_diff and the hunks printed from the
\* queue, in the order of the calls
Stored == SelectSeq(calls, LAMBDA c : c.method = "store_ed_diff")
EdPrinted == SelectSeq(calls, LAMBDA c : c.method = "output_ed_diff")

\* C12 (ED ordering): in ED format nothing is printed while the blocks are being
\* processed; every hunk is queued, and once the run is over the queue has been
\* printed whole, last queued first, each command starting strictly below the
\* command printed before it and ending below that command's first line, so that no
\* address is shifted by an earlier command.
C12_EdOrdering ==
    diff_type = "ED" =>
        /\ pc \in {"start", "loop"} => (stdout = <<>> /\ EdPrinted = <<>>)
        /\ ed_hunks = Reverse([k \in 1..Len(Stored) |-> Stored[k].hunk])
        /\ Finished =>
             /\ Len(Stored) = Len(diffs)
             /\ [k \in 1..Len(EdPrinted) |-> EdPrinted[k].hunk] = ed_hunks
             /\ stdout = CallLines(EdPrinted)
             /\ \A k \in 2..Len(EdPrinted) :
                   /\ EdPrinted[k].hunk.start1 < EdPrinted[k - 1].hunk.start1
                   /\ EdPrinted[k].hunk.end1 < EdPrinted[k - 1].hunk.start1

\* a finished ED run that printed three commands, a deletion and an append among them
C12_Witness ==
    /\ diff_type = "ED"
    /\ Finished
    /\ Len(EdPrinted) >= 3
    /\ \E k \in 1..Len(EdPrinted) : removes(EdPrinted[k].hunk.blocks[1]) # <<>>
    /\ \E k \in 1..Len(EdPrinted) : inserts(EdPrinted[k].hunk.blocks[1]) # <<>>
    /\ EdPrinted[1].hunk.start1 > EdPrinted[3].hunk.start1

\* ------------------------------------------------------------------ ED and REVERSE_ED on the same files
\* A second run of the program on the same two files: after `diff -e f1 f2` has
\* ended, `diff -f f1 f2` starts with fresh globals (diff.py:25-28, 326-344); stdout
\* and calls go on as the transcript of both runs.
DiffReverseEd ==
    /\ pc = "done"
    /\ diff_type = "ED"
    /\ diff_type' = "REVERSE_ED"
    /\ pc' = "start"
    /\ diffs' = <<>>
    /\ piece_no' = 1
    /\ old_hunk' = <<>>
    /\ file_length_difference' = 0
    /\ ed_hunks' = <<>>
    /\ exit_code' = -1
    /\ UNCHANGED <<f1, f2, context_lines, quiet, stdout, calls, earlier, error>>
    /\ UNCHANGED pvars

InitEd ==
    /\ f1 \in Files
    /\ f2 \in Files
    /\ diff_type = "ED"
    /\ context_lines = 0
    /\ quiet = FALSE
    /\ DiffInitial
    /\ PatchIdle

EdPairNext == DiffNext \/ DiffReverseEd

SpecEdPair == InitEd /\ [][EdPairNext]_vars

\* The commands the ED run printed and the commands the REVERSE_ED run printed
EdRun == SubSeq(EdPrinted, 1, Len(Stored))
ReverseEdRun == SubSeq(EdPrinted, Len(Stored) + 1, Len(EdPrinted))

BothRuns == diff_type = "REVERSE_ED" /\ pc = "done"

\* The header of an ED command with its tokens swapped: `<range><action>` becomes
\* `<action><range>`
Swapped(header) == <<header[Len(header)]>> \o SubSeq(header, 1, Len(header) - 1)

Spaced(text) == [k \in 1..Len(text) |-> IF text[k] = "," THEN " " ELSE text[k]]

\* C13 as stated: the REVERSE_ED run prints the same hunks in the same order as the
\* ED run, each with the same body and with the header of the ED command, its two
\* tokens swapped and its range text unchanged.
C13_ReverseEdSame ==
    BothRuns =>
        /\ Len(ReverseEdRun) = Len(EdRun)
        /\ \A k \in 1..Len(EdRun) :
              /\ ReverseEdRun[k].hunk = EdRun[k].hunk
              /\ ReverseEdRun[k].lines[1] = Swapped(EdRun[k].lines[1])
              /\ Tail(ReverseEdRun[k].lines) = Tail(EdRun[k].lines)

\* C13 amended: the REVERSE_ED run prints the hunks of the ED run in the opposite
\* order (ascending), each with the same body and with the header of the ED command,
\* its two tokens swapped and the comma of its range replaced by a space.
C13_ReverseEdForward ==
    BothRuns =>
        /\ Len(ReverseEdRun) = Len(EdRun)
        /\ \A k \in 1..Len(EdRun) :
              LET e == EdRun[Len(EdRun) - k + 1]
                  r == ReverseEdRun[k]
              IN /\ r.hunk = e.hunk
                 /\ r.lines[1] = Spaced(Swapped(e.lines[1]))
                 /\ Tail(r.lines) = Tail(e.lines)

\* both runs over, with two commands, a two-line range and a body
C13_Witness ==
    /\ BothRuns
    /\ Len(EdRun) >= 2
    /\ Len(ReverseEdRun) = Len(EdRun)
    /\ \E k \in 1..Len(EdRun) : \E n \in 1..Len(EdRun[k].lines[1]) : EdRun[k].lines[1][n] = ","
    /\ \E k \in 1..Len(ReverseEdRun) : Len(ReverseEdRun[k].lines) > 1
    /\ ReverseEdRun[1].hunk = EdRun[Len(EdRun)].hunk

\* ------------------------------------------------------------------ properties of the patch reader
\* The hunks diff printed: the hunks of the stream the patch run reads
PrintedHunks ==
    LET done == SelectSeq(calls, LAMBDA c : c.method # "store_ed_diff" /\ c.err = "")
    IN [k \in 1..Len(done) |-> done[k].hunk]

StreamRead == ppc = "exit" /\ run = 1 /\ options.has_fh

\* C14 (Format auto-detection): when patch has read to its end what diff printed in
\* normal, context, unified or ed format, every hunk of the stream has been
\* recognized and passed to apply once, in stream order, with as many removed and
\* added lines as the hunk has.
C14_FormatDetection ==
    (StreamRead /\ diff_type \in {"OLD", "CONTEXT", "UNIFIED", "ED"}) =>
        /\ Len(Run(1)) = Len(PrintedHunks)
        /\ \A k \in 1..Len(PrintedHunks) :
              /\ CountCmd(Run(1)[k].hunk, {"-"}) = Cardinality(ChangedIn(PrintedHunks[k], "-"))
              /\ CountCmd(Run(1)[k].hunk, {"+"}) = Cardinality(ChangedIn(PrintedHunks[k], "+"))

\* The number written at text[pos..]: its digits up to the first character that is
\* no digit
RECURSIVE NumberAt(_, _, _)
NumberAt(text, pos, acc) ==
    IF pos > Len(text) \/ text[pos] \notin {"0", "1", "2", "3", "4", "5", "6", "7", "8", "9"}
    THEN acc
    ELSE NumberAt(text, pos + 1,
                  10 * acc + (CHOOSE d \in 0..9 : Digit(d) = text[pos]))

\* The positions of the commas of a line
Commas(line) == {k \in 1..Len(line) : line[k] = ","}

\* A unified hunk header `@@ -a,n +b,m @@` and the counts n and m it declares
IsCounted(line) == StartsWith(line, <<"@", "@", " ", "-">>) /\ Cardinality(Commas(line)) = 2
DeclaredOld(line) == NumberAt(line, 1 + CHOOSE k \in Commas(line) : \A c \in Commas(line) : k <= c, 0)
DeclaredNew(line) == NumberAt(line, 1 + CHOOSE k \in Commas(line) : \A c \in Commas(line) : k >= c, 0)

\* Line k of the patch stream is a hunk header whose declared counts are not the
\* counts of the body lines that follow it
Mismatch(k) ==
    /\ k \in 1..Len(patch_text)
    /\ IsCounted(patch_text[k])
    /\ LET body == BodyOf(SubSeq(patch_text, k + 1, Len(patch_text)))
       IN \/ DeclaredOld(patch_text[k]) # CountCmd(body, {" ", "-"})
          \/ DeclaredNew(patch_text[k]) # CountCmd(body, {" ", "+"})

\* The number of lines of the patch stream read so far
LinesRead == Len(patch_text) - Len(patch_source)

\* C15 (Parse error on count mismatch): once the reader has read a hunk header whose
\* declared line count differs from the number of body lines after it, together with
\* those body lines, the run has ended in a ParseError, nothing after the body has
\* been read and the body has not been passed to apply.
C15_CountMismatch ==
    \A k \in 1..Len(patch_text) :
        LET body == BodyOf(SubSeq(patch_text, k + 1, Len(patch_text))) IN
        (run = 1 /\ options.has_fh /\ Mismatch(k) /\ LinesRead >= k + Len(body)) =>
            /\ ppc = "crash"
            /\ p_error = "ParseError"
            /\ LinesRead <= k + Len(body) + 1
            /\ \A n \in 1..Len(applied) : applied[n].hunk # body \/ body = <<>>

\* The lines of the patch stream that the log (the notes on stderr) shows
Reported == SelectSeq(stderr, LAMBDA l : l \in PatchLines)

\* The lines of the patch stream consumed as patch text: one header and the body
\* lines for every hunk passed to apply
Consumed == SeqSum([n \in 1..Len(Run(1)) |-> 1 + Len(Run(1)[n].hunk)])

\* C16 (Garbage is never dropped silently): when the run has read the patch stream
\* to its end, every line of the stream has been consumed as a header or a hunk body
\* line or has been reported in the log; no line is unaccounted for.
C16_GarbageReported ==
    (ppc \in {"exit", "ended"} /\ run = 1) =>
        Len(patch_text) = Consumed + Len(Reported)

\* ------------------------------------------------------------------ properties of the exit status of diff
\* C17 (Exit classification): a diff run that has ended has status EX_SUCCESS exactly
\* when diff(f1, f2) returned no blocks and status EX_DIFFERENT exactly when it
\* returned at least one; no run on two readable files ends with EX_FAILURE.
C17_ExitClassification ==
    exit_code # -1 =>
        /\ exit_code = EX_SUCCESS <=> diffs = <<>>
        /\ exit_code = EX_DIFFERENT <=> diffs # <<>>
        /\ exit_code # EX_FAILURE

\* ------------------------------------------------------------------ properties of the backtrack
Prefix(s, n) == SubSeq(s, 1, n)

\* Reference: the edit script the tie-break rule prescribes for the first i lines of
\* a and the first j lines of b, in file order; the sub-problem values are LCS lengths
\* found by enumeration.  Equal last lines are kept; otherwise INSERT when
\* L[i][j-1] >= L[i-1][j] or i = 0, DELETE when L[i][j-1] < L[i-1][j] or j = 0.
RECURSIVE TieBreakScript(_, _, _, _)
TieBreakScript(a, b, i, j) ==
    IF i = 0 /\ j = 0 THEN <<>>
    ELSE IF i > 0 /\ j > 0 /\ a[i] = b[j] THEN TieBreakScript(a, b, i - 1, j - 1)
    ELSE IF i = 0 THEN Append(TieBreakScript(a, b, i, j - 1), Change("+", j - 1))
    ELSE IF j = 0 THEN Append(TieBreakScript(a, b, i - 1, j), Change("-", i - 1))
    ELSE IF LCS(Prefix(a, i), Prefix(b, j - 1)) >= LCS(Prefix(a, i - 1), Prefix(b, j))
         THEN Append(TieBreakScript(a, b, i, j - 1), Change("+", j - 1))
         ELSE Append(TieBreakScript(a, b, i - 1, j), Change("-", i - 1))

\* C18 (Tie-break and determinism): the changes diff(f1, f2) returns are exactly the
\* script of the tie-break rule (INSERT on L[i][j-1] >= L[i-1][j] and at i = 0, DELETE
\* otherwise and at j = 0), whatever the options of the run; the backtrack loop never
\* reaches a position where it takes no branch.
C18_TieBreak ==
    pc # "start" =>
        /\ Changes = TieBreakScript(f1, f2, Len(f1), Len(f2))
        /\ \A k \in 1..Len(Changes) : Changes[k].sign \in {"+", "-"}

\* a comparison that starts at a tie: unequal last lines and equal sub-problem values
\* on both sides, settled by the INSERT of f2's last line
C18_Witness ==
    /\ pc = "loop"
    /\ Len(f1) >= 2
    /\ Len(f2) >= 2
    /\ f1[Len(f1)] # f2[Len(f2)]
    /\ LCS(f1, Prefix(f2, Len(f2) - 1)) = LCS(Prefix(f1, Len(f1) - 1), f2)
    /\ LCS(f1, f2) >= 1
    /\ Changes[Len(Changes)] = Change("+", Len(f2) - 1)

\* ------------------------------------------------------------------ properties of the grouping
\* C19 (Block grouping): every block diff(f1, f2) returns is a maximal run of changes:
\* at least one kept line separates each block from the block before it, so that a
\* line replaced by another (a delete and an insert with no kept line between them)
\* is one block holding both changes.
C19_BlockGrouping ==
    pc # "start" => \A k \in 2..Len(diffs) : Gap(k) >= 1

\* ------------------------------------------------------------------ properties of the hunk order
\* C20 (Hunk order): whatever the files, the format and the context length, each
\* hunk the main loop hands to an output method starts in f1 strictly after the
\* start and after the end of the hunk handed over before it.
C20_HunkOrder ==
    \A n \in 2..Len(Emitted) :
        /\ Emitted[n].hunk.start1 > Emitted[n - 1].hunk.start1
        /\ Emitted[n].hunk.start1 > Emitted[n - 1].hunk.end1

\* three hunks handed over with context, the second made of more than one block
C20_Witness ==
    /\ Len(Emitted) >= 2
    /\ context_lines > 0
    /\ \E n \in 1..Len(Emitted) : Len(Emitted[n].hunk.blocks) >= 2
    /\ Emitted[2].hunk.start1 > Emitted[1].hunk.end1

\* ------------------------------------------------------------------ properties of hunk separation
\* Hunk h2, handed over right after h1, abuts it: its start is within one line of
\* h1's end in f1 or in f2
Abuts(h1, h2) == (h2.start1 - h1.end1 <= 1) \/ (h2.start2 - h1.end2 <= 1)

\* C21 (No abutting hunks): for every context length, 0 included, no hunk handed to an
\* output method starts within one line of the end of the hunk handed over before it,
\* in f1 or in f2: such a hunk has been merged into the pending one.
C21_NoAbuttingHunks ==
    \A n \in 2..Len(Emitted) : ~Abuts(Emitted[n - 1].hunk, Emitted[n].hunk)

\* ------------------------------------------------------------------ properties of hunk placement
\* The running offset in front of the n-th hunk passed to apply in this run: added
\* minus removed lines of the hunks applied before it (a hunk that found no place
\* adds nothing)
OffsetBefore(n) ==
    SeqSum([m \in 1..(n - 1) |->
               IF Run(1)[m].found
               THEN CountCmd(Run(1)[m].hunk, {"+"}) - CountCmd(Run(1)[m].hunk, {"-"})
               ELSE 0])

\* The old-file start line a unified hunk header `@@ -a,n +b,m @@` names
HeaderStart(line) == NumberAt(line, 5, 0)

\* C22 (Offset tracking): when the patch stream has been read, every hunk passed to
\* apply was first sought at its start line plus the running offset of the hunks
\* applied before it, and every hunk whose header names a start line (and declares
\* the counts its body has) was passed to apply and sought at that line plus the
\* offset.
C22_OffsetTracking ==
    (ppc = "exit" /\ run = 1 /\ options.has_fh /\ ~options.reverse) =>
        /\ \A n \in 1..Len(Run(1)) :
              Run(1)[n].sought = Run(1)[n].i_start + OffsetBefore(n)
        /\ \A k \in 1..Len(patch_text) :
              (IsCounted(patch_text[k]) /\ ~Mismatch(k)) =>
                  \E n \in 1..Len(Run(1)) :
                      /\ Run(1)[n].hunk = BodyOf(SubSeq(patch_text, k + 1, Len(patch_text)))
                      /\ Run(1)[n].sought = HeaderStart(patch_text[k]) + OffsetBefore(n)

\* The run applied exactly one hunk, which found its place, and has copied the rest
\* of the input
OneHunkSpliced ==
    /\ ppc = "ended"
    /\ run = 1
    /\ options.has_fh
    /\ options.ifdef = <<>>
    /\ Len(Run(1)) = 1
    /\ Run(1)[1].found

\* C23 (Splice): after a run that placed its one hunk at position p of the input and
\* copied the rest of the input, the output is the input's first p lines, the hunk's
\* new-side lines, and the input from line p + n on, n being the number of old-side
\* lines of the hunk; no removed line is in the output.
C23_Splice ==
    OneHunkSpliced =>
        LET r == Run(1)[1]
            p == r.sought - 1
            n == Len(OldSide(r.hunk))
        IN o_fh = SubSeq(orig, 1, p) \o NewSide(r.hunk) \o SubSeq(orig, p + n + 1, Len(orig))

\* Line l2 is line l1 with the roles of '+' and '-' swapped and the text unchanged
RoleSwapped(l1, l2) ==
    /\ l1 # <<>>
    /\ l2 # <<>>
    /\ Tail(l2) = Tail(l1)
    /\ Head(l2) = (CASE Head(l1) = "+" -> "-" [] Head(l1) = "-" -> "+" [] OTHER -> Head(l1))

\* C24 (Reverse mode): with the reverse option the hunk Patch.apply goes on with is
\* the hunk read from the stream with every '+' line turned into a '-' line and every
\* '-' line into a '+' line, the context lines, the text and the order of the lines
\* unchanged; without the option it is the hunk as read; and reversing a hunk twice
\* gives the hunk back.
C24_ReverseMode ==
    \A n \in 1..Len(applied) :
        LET r == applied[n] IN
        /\ r.reverse =>
              /\ Len(r.hunk) = Len(r.body)
              /\ \A k \in 1..Len(r.body) : RoleSwapped(r.body[k], r.hunk[k])
        /\ ~r.reverse => r.hunk = r.body
        /\ reverse_hunk(reverse_hunk(r.body)) = r.body

\* a hunk with a removed line and an added line applied in reverse
C24_Witness ==
    \E n \in 1..Len(applied) :
        LET r == applied[n] IN
        /\ r.reverse
        /\ r.found
        /\ CountCmd(r.body, {"-"}) > 0
        /\ CountCmd(r.body, {"+"}) > 0
        /\ CountCmd(r.hunk, {"+"}) = CountCmd(r.body, {"-"})
        /\ r.hunk # r.body

\* ------------------------------------------------------------------ properties of ifdef mode
IfdefCalls == SelectSeq(applied, LAMBDA r : r.found /\ r.ifdef # <<>>)

IsIfdef(line, sym) == line = <<"#", "i", "f", "d", "e", "f", " ">> \o sym
IsIfndef(line, sym) == line = <<"#", "i", "f", "n", "d", "e", "f", " ">> \o sym
IsEndif(line) == StartsWith(line, <<"#", "e", "n", "d", "i", "f">>)

\* Reference: what is left of a text when the conditionals on sym are resolved with
\* sym defined or undefined.  `open` holds, innermost last, whether each enclosing
\* conditional is the branch kept; an #endif closes the innermost conditional and is
\* ordinary text when none is open.
RECURSIVE KeepBranches(_, _, _, _)
KeepBranches(text, sym, defined, open) ==
    IF text = <<>> THEN <<>>
    ELSE LET l == Head(text)
             rest == Tail(text)
             kept == \A k \in 1..Len(open) : open[k]
         IN IF IsIfdef(l, sym) THEN KeepBranches(rest, sym, defined, Append(open, defined))
            ELSE IF IsIfndef(l, sym) THEN KeepBranches(rest, sym, defined, Append(open, ~defined))
            ELSE IF IsEndif(l) /\ open # <<>>
                 THEN KeepBranches(rest, sym, defined, SubSeq(open, 1, Len(open) - 1))
            ELSE (IF kept THEN <<l>> ELSE <<>>) \o KeepBranches(rest, sym, defined, open)

\* The written text is, hunk line by hunk line, `#ifndef sym`, the line, an #endif
\* line for a removed line; `#ifdef sym`, the line, an #endif line for an added
\* line; the line alone for a context line.
RECURSIVE Wrapped(_, _, _)
Wrapped(hunk, text, sym) ==
    IF hunk = <<>> THEN text = <<>>
    ELSE LET cmd == Head(Head(hunk))
             line == Tail(Head(hunk))
         IN IF cmd = " "
            THEN /\ Len(text) >= 1
                 /\ text[1] = line
                 /\ Wrapped(Tail(hunk), Tail(text), sym)
            ELSE /\ Len(text) >= 3
                 /\ IF cmd = "-" THEN IsIfndef(text[1], sym) ELSE IsIfdef(text[1], sym)
                 /\ text[2] = line
                 /\ IsEndif(text[3])
                 /\ Wrapped(Tail(hunk), SubSeq(text, 4, Len(text)), sym)

BothSides(r) ==
    /\ KeepBranches(r.written, r.ifdef, FALSE, <<>>) = OldSide(r.hunk)
    /\ KeepBranches(r.written, r.ifdef, TRUE, <<>>) = NewSide(r.hunk)

\* A hunk line whose text is a preprocessor directive
IsDirective(line) == StartsWith(LStrip(Tail(line)), <<"#">>)
PlainHunk(hunk) == \A k \in 1..Len(hunk) : ~IsDirective(hunk[k])

\* C25 (ifdef mode), as claimed: for every matched hunk applied with an ifdef symbol,
\* removed lines are written between `#ifndef SYM` and `#endif`, added lines between
\* `#ifdef SYM` and `#endif`, context lines once and unwrapped, and the written text
\* gives the hunk's old side with SYM undefined and its new side with SYM defined.
C25_IfdefSides ==
    \A n \in 1..Len(IfdefCalls) :
        LET r == IfdefCalls[n] IN Wrapped(r.hunk, r.written, r.ifdef) /\ BothSides(r)

\* C25 (ifdef mode), amended: the wrapping is as claimed for every matched hunk, and
\* the written text gives the old side with SYM undefined and the new side with SYM
\* defined for every matched hunk none of whose lines is itself a preprocessor
\* directive.
C25_IfdefSidesPlain ==
    \A n \in 1..Len(IfdefCalls) :
        LET r == IfdefCalls[n]
        IN /\ Wrapped(r.hunk, r.written, r.ifdef)
           /\ PlainHunk(r.hunk) => BothSides(r)

\* a matched hunk with a context line, a removed line and an added line, no directive
C25_Witness ==
    \E n \in 1..Len(IfdefCalls) :
        LET r == IfdefCalls[n]
        IN /\ PlainHunk(r.hunk)
           /\ \A c \in {" ", "-", "+"} : CountCmd(r.hunk, {c}) > 0
           /\ Len(r.written) = 7
           /\ BothSides(r)

\* ------------------------------------------------------------------ two comparisons in one interpreter
\* A caller that has imported diff.py runs the comparison of diff.py:378-419 on the
\* same two files a second time in the same interpreter: the locals of the loop are
\* assigned anew, the module globals of diff.py:25-28 are whatever the first
\* comparison left (no statement of the module assigns them again).
DiffSameProcess ==
    /\ pc = "done"
    /\ ~quiet
    /\ earlier = <<>>
    /\ earlier' = calls
    /\ calls' = <<>>
    /\ pc' = "start"
    /\ diffs' = <<>>
    /\ piece_no' = 1
    /\ old_hunk' = <<>>
    /\ exit_code' = -1
    /\ UNCHANGED <<f1, f2, context_lines, diff_type, quiet, file_length_difference,
                   ed_hunks, stdout, error>>
    /\ UNCHANGED pvars

SameProcessNext == DiffNext \/ DiffSameProcess

SpecSameProcess == Init /\ [][SameProcessNext]_vars

\* The ranges of the hunks built during a comparison, in the order the main loop
\* handed them on, and the ED hunks printed from the queue
Built(cs) == SelectSeq(cs, LAMBDA c : c.method # "output_ed_diff" \/ diff_type = "REVERSE_ED")
Ranges(cs) == [k \in 1..Len(Built(cs)) |->
                 LET h == Built(cs)[k].hunk IN <<h.start1, h.end1, h.start2, h.end2>>]
EdPrintedSet(cs) ==
    {cs[k].hunk : k \in {n \in 1..Len(cs) : cs[n].method = "output_ed_diff" /\ diff_type = "ED"}}

\* C26 (No state carried between invocations): at the start of every comparison
\* file_length_difference is 0 and ed_hunks is empty, and a comparison made after an
\* earlier one in the same interpreter builds hunks with the same ranges and prints
\* the same set of ED hunks as the earlier comparison of the same files.
C26_NoCarriedState ==
    /\ pc = "start" => (file_length_difference = 0 /\ ed_hunks = <<>>)
    /\ (earlier # <<>> /\ pc \in {"done", "crash"}) =>
          /\ Ranges(calls) = Ranges(earlier)
          /\ EdPrintedSet(calls) = EdPrintedSet(earlier)

\* ------------------------------------------------------------------ order of changes
AllSign(block, sign) == \A n \in 1..Len(block) : block[n].sign = sign

\* C27 (Deletes before inserts): in the changes diff(f1, f2) returns, in forward
\* order, an insertion is never directly followed by a deletion without a kept line
\* between them, so a run of changes with no kept line inside has all its '-' entries
\* before all its '+' entries; and two blocks with no kept line between them are a
\* delete block followed by an insert block.
C27_DeletesBeforeInserts ==
    pc # "start" =>
        LET kept == KeptBefore(Changes, 0, 0)
        IN /\ \A k \in 1..(Len(Changes) - 1) :
                 (Changes[k].sign = "+" /\ Changes[k + 1].sign = "-") => kept[k + 1] > 0
           /\ \A k \in 1..Len(Changes), n \in 1..Len(Changes) :
                 (k < n /\ Changes[k].sign = "+" /\ Changes[n].sign = "-")
                    => \E m \in (k + 1)..n : kept[m] > 0
           /\ \A k \in 2..Len(diffs) :
                 Gap(k) = 0 => (AllSign(diffs[k - 1], "-") /\ AllSign(diffs[k], "+"))

\* a replace of two lines by two lines next to a kept line
C27_Witness ==
    /\ pc = "loop"
    /\ Len(f1) = 3
    /\ Len(f2) = 3
    /\ Len(diffs) = 2
    /\ Gap(2) = 0
    /\ Len(diffs[1]) = 2
    /\ AllSign(diffs[1], "-")
    /\ Len(diffs[2]) = 2
    /\ AllSign(diffs[2], "+")

\* ------------------------------------------------------------------ the ED output as an ed script
Digits == {"0", "1", "2", "3", "4", "5", "6", "7", "8", "9"}

\* The buffer of an ed run that met a command it cannot execute
EdFailed == <<<<"?">>>>

\* The address part of a command line `N[,M]<letter>`: first and last line addressed
EdAddress(header) ==
    LET range == SubSeq(header, 1, Len(header) - 1)
        commas == Commas(range)
        valid == /\ range # <<>>
                 /\ \A k \in 1..Len(range) : range[k] \in Digits \cup {","}
                 /\ Cardinality(commas) <= 1
                 /\ range[1] \in Digits
                 /\ range[Len(range)] \in Digits
        first == NumberAt(range, 1, 0)
        last == IF commas = {} THEN first ELSE NumberAt(range, 1 + CHOOSE k \in commas : TRUE, 0)
    IN [valid |-> valid, first |-> first, last |-> last]

\* Reference: ed's execution of a script on a buffer.  `N a` puts the lines up to the
\* next `.` line after line N (N = 0: in front), `N[,M] d` deletes lines N..M; each
\* address is read against the buffer as the commands before it left it.
RECURSIVE ExecuteEd(_, _)
ExecuteEd(script, buffer) ==
    IF script = <<>> \/ buffer = EdFailed THEN buffer
    ELSE LET header == Head(script)
             letter == IF header = <<>> THEN "" ELSE header[Len(header)]
             at == EdAddress(header)
             dots == {k \in 2..Len(script) : script[k] = <<".">>}
             dot == CHOOSE k \in dots : \A d \in dots : k <= d
         IN IF header = <<>> \/ ~at.valid THEN EdFailed
            ELSE IF letter = "a"
            THEN IF dots = {} \/ at.last > Len(buffer) THEN EdFailed
                 ELSE ExecuteEd(SubSeq(script, dot + 1, Len(script)),
                                SubSeq(buffer, 1, at.last) \o SubSeq(script, 2, dot - 1)
                                \o SubSeq(buffer, at.last + 1, Len(buffer)))
            ELSE IF letter = "d"
            THEN IF 1 <= at.first /\ at.first <= at.last /\ at.last <= Len(buffer)
                 THEN ExecuteEd(Tail(script), SubSeq(buffer, 1, at.first - 1)
                                              \o SubSeq(buffer, at.last + 1, Len(buffer)))
                 ELSE EdFailed
            ELSE EdFailed

\* C28 (Executable ED script): when a run in ED format is over, ed executing the
\* printed commands in the order printed on f1 ends with its buffer equal to f2 (no
\* line of the files compared is a single '.').
C28_EdExecutable ==
    (diff_type = "ED" /\ ~quiet /\ pc \in {"done", "crash"}) => ExecuteEd(stdout, f1) = f2

\* a script of an append command and a delete command for two files with a common line
C28_Witness ==
    /\ diff_type = "ED"
    /\ pc = "done"
    /\ ~quiet
    /\ Len(EdPrinted) >= 2
    /\ \E k \in 1..Len(stdout) : stdout[k] = <<".">>
    /\ \E k \in 1..Len(stdout) : stdout[k] # <<>> /\ stdout[k][Len(stdout[k])] = "d"
    /\ \E k \in 1..Len(f1) : \E n \in 1..Len(f2) : f1[k] = f2[n]
    /\ ExecuteEd(stdout, f1) = f2

\* ------------------------------------------------------------------ hunks of the normal and ED formats
OldEdCalls == SelectSeq(calls, LAMBDA c : c.method \in {"output_old_diff", "output_ed_diff"})

\* The characters of a command line that are no part of a range
Letters(header) == {header[k] : k \in 1..Len(header)} \ (Digits \cup {",", " "})

\* C29 (Single-sign hunks in NORMAL and ED output): every hunk output_old_diff or
\* output_ed_diff renders holds exactly one block, all of whose changes have the same
\* sign; the command line printed for it carries the letter 'a' or 'd', never 'c' or
\* 'u', and no `---` separator line is printed.
C29_SingleSign ==
    \A n \in 1..Len(OldEdCalls) :
        LET c == OldEdCalls[n]
            h == c.hunk
        IN /\ Len(h.blocks) = 1
           /\ AllSign(h.blocks[1], "+") \/ AllSign(h.blocks[1], "-")
           /\ op(h.blocks[1]) \in {"+", "-"}
           /\ c.lines # <<>>
           /\ Letters(c.lines[1]) \in {{"a"}, {"d"}}
           /\ \A k \in 1..Len(c.lines) : c.lines[k] # <<"-", "-", "-">>

\* a replaced line in the normal format: a 'd' command followed by an 'a' command
C29_Witness ==
    /\ diff_type = "OLD"
    /\ pc = "done"
    /\ Len(OldEdCalls) = 2
    /\ Gap(2) = 0
    /\ Letters(OldEdCalls[1].lines[1]) = {"d"}
    /\ Letters(OldEdCalls[2].lines[1]) = {"a"}

====
